---- MODULE Spec2Model ----
(***************************************************************************)
(* Model of landing/main.go: the landing-page server.  main() loads        *)
(* cfg/config.yaml, resolves the environment colour, parses the templates, *)
(* fixes the tabs up, expands shards and customers, and then serves "/".   *)
(*                                                                         *)
(* A Go string is modelled as a sequence of one-character strings, so that *)
(* prefix tests, concatenation and per-character mapping are computed, not *)
(* assumed.                                                                *)
(***************************************************************************)
EXTENDS Integers, Sequences, FiniteSets, TLC

VARIABLES pc, file, cfg, steps, expandedShards, expandedCustomers, requests

vars == <<pc, file, cfg, steps, expandedShards, expandedCustomers, requests>>

(***************************************************************************)
(* Bounds of the model.                                                    *)
(***************************************************************************)
MaxGroups == 3
MaxItems == 2
MaxCustGroups == 2
MaxTenants == 2
MaxTabs == 3
MaxTabItems == 2
MaxEnvs == 2
MaxRequests == 2

SeqsUpTo(S, n) == UNION {[1..k -> S] : k \in 0..n}

Range(s) == {s[i] : i \in DOMAIN s}

(***************************************************************************)
(* String literals of the program.                                         *)
(***************************************************************************)
PfnPrefix == <<"p", "f", "n", ".">>
HttpScheme == <<"h", "t", "t", "p", ":", "/", "/">>
HttpsScheme == <<"h", "t", "t", "p", "s", ":", "/", "/">>
Wanda == <<"w", "a", "n", "d", "a">>
FishIcon == <<"f", "i", "s", "h", ".", "s", "v", "g">>
DefaultColor == <<"#", "1", "e", "4", "0", "a", "f">>

(***************************************************************************)
(* package strings                                                         *)
(***************************************************************************)
HasPrefix(s, prefix) ==
    /\ Len(s) >= Len(prefix)
    /\ SubSeq(s, 1, Len(prefix)) = prefix

TrimPrefix(s, prefix) ==
    IF HasPrefix(s, prefix) THEN SubSeq(s, Len(prefix) + 1, Len(s)) ELSE s

\* strings.ReplaceAll for a one-character old and new
ReplaceAll(s, old, new) ==
    [i \in 1..Len(s) |-> IF s[i] = old THEN new ELSE s[i]]

UpperLetters ==
    <<"A", "B", "C", "D", "E", "F", "G", "H", "I", "J", "K", "L", "M",
      "N", "O", "P", "Q", "R", "S", "T", "U", "V", "W", "X", "Y", "Z">>

LowerLetters ==
    <<"a", "b", "c", "d", "e", "f", "g", "h", "i", "j", "k", "l", "m",
      "n", "o", "p", "q", "r", "s", "t", "u", "v", "w", "x", "y", "z">>

LowerRune(ch) ==
    IF \E k \in DOMAIN UpperLetters : UpperLetters[k] = ch
    THEN LowerLetters[CHOOSE k \in DOMAIN UpperLetters : UpperLetters[k] = ch]
    ELSE ch

ToLower(s) == [i \in 1..Len(s) |-> LowerRune(s[i])]

(***************************************************************************)
(* The Config model: the zero value, and yaml.Unmarshal of a document.     *)
(* A field without a yaml tag is read from the key that is its name in     *)
(* lower case (EnvColor from "envcolor", Tab.Index from "index").          *)
(***************************************************************************)
ZeroConfig ==
    [Title |-> <<>>, Environment |-> <<>>, FQDN |-> <<>>,
     Environments |-> <<>>, EnvColor |-> <<>>,
     Shards |-> [Items |-> <<>>], Customers |-> <<>>, Tabs |-> <<>>]

DecodeItem(y) ==
    [Name |-> y.name, URL |-> y.url, Path |-> y.path, Icon |-> y.icon]

DecodeTab(y) ==
    [Index |-> y.index, Name |-> y.name,
     Items |-> [j \in 1..Len(y.items) |-> DecodeItem(y.items[j])]]

DecodeEnvironmentLink(y) ==
    [Name |-> y.name, URL |-> y.url, Color |-> y.color]

DecodeCustomerGroup(y) ==
    [Shard |-> y.shard, Tenants |-> y.tenants]

Unmarshal(doc) ==
    [Title |-> doc.title,
     Environment |-> doc.environment,
     FQDN |-> doc.fqdn,
     Environments |->
        [i \in 1..Len(doc.environments) |->
            DecodeEnvironmentLink(doc.environments[i])],
     EnvColor |-> doc.envcolor,
     Shards |->
        [Items |-> [j \in 1..Len(doc.shards.items) |->
                        DecodeItem(doc.shards.items[j])]],
     Customers |->
        [i \in 1..Len(doc.customers) |-> DecodeCustomerGroup(doc.customers[i])],
     Tabs |-> [i \in 1..Len(doc.tabs) |-> DecodeTab(doc.tabs[i])]]

(***************************************************************************)
(* Config.shardListFromCustomers: one pass over c.Customers with the map   *)
(* seen; a shard is appended the first time it is met.                     *)
(***************************************************************************)
RECURSIVE shardLoop(_, _, _, _)
shardLoop(customers, i, seen, result) ==
    IF i > Len(customers)
    THEN result
    ELSE IF customers[i].Shard \notin seen
         THEN shardLoop(customers, i + 1, seen \cup {customers[i].Shard},
                        Append(result, customers[i].Shard))
         ELSE shardLoop(customers, i + 1, seen, result)

\* A variant that appends every group's shard (no seen test).
shardListNoDedup(c) ==
    [i \in 1..Len(c.Customers) |-> c.Customers[i].Shard]

shardListFromCustomers(c) == shardLoop(c.Customers, 1, {}, <<>>)

(***************************************************************************)
(* Config.base                                                             *)
(***************************************************************************)
RECURSIVE TrimAllPrefix(_, _)
TrimAllPrefix(s, prefix) ==
    IF HasPrefix(s, prefix)
    THEN TrimAllPrefix(SubSeq(s, Len(prefix) + 1, Len(s)), prefix)
    ELSE s

\* A variant that removes every leading "pfn.".
baseTrimAll(c) == TrimAllPrefix(c.FQDN, PfnPrefix)

base(c) == TrimPrefix(c.FQDN, PfnPrefix)

(***************************************************************************)
(* Config.ExpandShards                                                     *)
(***************************************************************************)
\* fmt.Sprintf("https://%s.%s/%s", host, domain, path)
SprintfURL(host, domain, path) ==
    HttpsScheme \o host \o <<".">> \o domain \o <<"/">> \o path

\* A variant that lower-cases without replacing the spaces.
DataShardLowerOnly(shard) == ToLower(shard)

DataShardOf(shard) == ToLower(ReplaceAll(shard, " ", "-"))

\* A variant that builds the URL from the FQDN as written.
ShardItemFromFQDN(c, shard, item) ==
    [Name |-> item.Name,
     URL |-> SprintfURL(shard, c.FQDN, item.Path),
     Icon |-> item.Icon]

ShardItem(c, shard, item) ==
    [Name |-> item.Name,
     URL |-> SprintfURL(shard, base(c), item.Path),
     Icon |-> item.Icon]

ExpandShards(c) ==
    LET shards == shardListFromCustomers(c)
    IN  [k \in 1..Len(shards) |->
            [ShardName |-> shards[k],
             Items |-> [j \in 1..Len(c.Shards.Items) |->
                           ShardItem(c, shards[k], c.Shards.Items[j])],
             DataShard |-> DataShardOf(shards[k])]]

(***************************************************************************)
(* Config.ExpandCustomers                                                  *)
(***************************************************************************)
CustomerOf(c, tenant) ==
    [Name |-> tenant,
     Links |-> << [Name |-> tenant,
                   URL |-> SprintfURL(tenant, base(c), Wanda),
                   Icon |-> FishIcon] >>]

\* A variant that emits one group per inferred shard, holding the tenants of
\* the first group of that shard.
ExpandCustomersPerShard(c) ==
    LET shards == shardListFromCustomers(c)
        First(s) == CHOOSE i \in 1..Len(c.Customers) :
                        /\ c.Customers[i].Shard = s
                        /\ \A k \in 1..(i - 1) : c.Customers[k].Shard # s
    IN  [k \in 1..Len(shards) |->
            [ShardName |-> shards[k],
             Customers |->
                [t \in 1..Len(c.Customers[First(shards[k])].Tenants) |->
                    CustomerOf(c, c.Customers[First(shards[k])].Tenants[t])]]]

ExpandCustomers(c) ==
    [i \in 1..Len(c.Customers) |->
        [ShardName |-> c.Customers[i].Shard,
         Customers |-> [t \in 1..Len(c.Customers[i].Tenants) |->
                           CustomerOf(c, c.Customers[i].Tenants[t])]]]

(***************************************************************************)
(* buildURL, and the two fixups of main: colour and tabs.                  *)
(***************************************************************************)
\* A variant that recognises only "https://" as absolute.
buildURLHttpsOnly(domain, u) ==
    IF HasPrefix(u, HttpsScheme)
    THEN u
    ELSE HttpsScheme \o u \o <<".">> \o domain

buildURL(domain, u) ==
    IF HasPrefix(u, HttpScheme) \/ HasPrefix(u, HttpsScheme)
    THEN u
    ELSE HttpsScheme \o u \o <<".">> \o domain

\* for _, e := range cfg.Environments { if e.Name == cfg.Environment { ... } }
RECURSIVE colorLoop(_, _, _, _)
colorLoop(environments, i, environment, color) ==
    IF i > Len(environments)
    THEN color
    ELSE colorLoop(environments, i + 1, environment,
                   IF environments[i].Name = environment
                   THEN environments[i].Color
                   ELSE color)

resolveColor(c) ==
    LET scanned == colorLoop(c.Environments, 1, c.Environment, c.EnvColor)
    IN  IF scanned = <<>> THEN DefaultColor ELSE scanned

\* A variant that leaves the decoded Index and numbers nothing.
fixTabKeepIndex(c, i) ==
    [Index |-> c.Tabs[i].Index,
     Name |-> c.Tabs[i].Name,
     Items |-> [j \in 1..Len(c.Tabs[i].Items) |->
                   [c.Tabs[i].Items[j] EXCEPT
                       !.URL = buildURL(c.FQDN, c.Tabs[i].Items[j].URL)]]]

\* The body of the loop over cfg.Tabs for the tab at position i (from 1 here;
\* Go's index is i - 1).
fixTab(c, i) ==
    [Index |-> i - 1,
     Name |-> c.Tabs[i].Name,
     Items |-> [j \in 1..Len(c.Tabs[i].Items) |->
                   [c.Tabs[i].Items[j] EXCEPT
                       !.URL = buildURL(c.FQDN, c.Tabs[i].Items[j].URL)]]]

fixTabs(c) == [i \in 1..Len(c.Tabs) |-> fixTab(c, i)]

(***************************************************************************)
(* The configuration documents cfg/config.yaml is drawn from.  A document  *)
(* carries the yaml keys; an absent key is the same as its empty value.    *)
(***************************************************************************)
FqdnPlain == <<"e", "x", ".", "i", "o">>
FqdnPfn == PfnPrefix \o FqdnPlain
FqdnPfnTwice == PfnPrefix \o PfnPrefix \o FqdnPlain
FqdnPfnInside == <<"e", "x", ".">> \o PfnPrefix \o <<"i", "o">>
FqdnPfnOnly == PfnPrefix
FqdnPfnNoDot == <<"p", "f", "n", "x">>

FQDNs ==
    {FqdnPlain, FqdnPfn, FqdnPfnTwice, FqdnPfnInside, FqdnPfnOnly, FqdnPfnNoDot}

ShardB == <<"b">>
ShardA == <<"a">>
ShardUSEast == <<"U", "S", " ", "E", " ", "_", "1">>
ShardIds == {ShardB, ShardA, ShardUSEast}

TenantT == <<"t">>
TenantAcme == <<"a", "c", "m", "e">>
TenantIds == {TenantT, TenantAcme}

YItem(name, url, path, icon) ==
    [name |-> name, url |-> url, path |-> path, icon |-> icon]

ItemDash == YItem(<<"D">>, <<>>, <<"d", "a", "s", "h">>, <<"d", ".", "s", "v", "g">>)
ItemRoot == YItem(<<"R">>, <<>>, <<>>, <<"r", ".", "s", "v", "g">>)
ShardItemPool == {ItemDash, ItemRoot}

UrlEmpty == <<>>
UrlGrafana == <<"g", "r", "a", "f">>
UrlHttp == HttpScheme \o <<"s">>
UrlHttps == HttpsScheme \o <<"s">>
UrlNearMiss == <<"h", "t", "t", "p", ":", "/">>
TabUrls == {UrlEmpty, UrlGrafana, UrlHttp, UrlHttps, UrlNearMiss}
TabItemPool == {YItem(<<"N">>, u, <<>>, <<"n", ".", "s", "v", "g">>) : u \in TabUrls}

YTab(index, name, items) == [index |-> index, name |-> name, items |-> items]

\* index is the key of the untagged field Tab.Index; 0 is the absent key.
TabVariants ==
    {YTab(ix, nm, <<YItem(<<"N">>, UrlGrafana, <<>>, <<>>)>>) :
        ix \in {0, 5}, nm \in {<<>>, <<"T">>}}

EnvProd == <<"p", "r", "o", "d">>
EnvDev == <<"d", "e", "v">>
ColorRed == <<"#", "f", "0", "0">>
ColorGreen == <<"#", "0", "f", "0">>
ColorPreset == <<"#", "a", "b", "c">>

EnvironmentLinks ==
    [name : {EnvProd, EnvDev}, url : {<<>>}, color : {<<>>, ColorRed, ColorGreen}]

Doc(fqdn, customers, items, tabs, environment, environments, envcolor) ==
    [title |-> <<"L">>,
     environment |-> environment,
     fqdn |-> fqdn,
     environments |-> environments,
     envcolor |-> envcolor,
     shards |-> [items |-> items],
     customers |-> customers,
     tabs |-> tabs]

SampleCustomers ==
    << [shard |-> ShardB, tenants |-> <<TenantT, TenantAcme>>],
       [shard |-> ShardA, tenants |-> <<>>],
       [shard |-> ShardB, tenants |-> <<TenantAcme>>] >>

SampleItems == <<ItemDash, ItemRoot>>

SampleTabs ==
    << YTab(0, <<"T">>, <<YItem(<<"N">>, UrlGrafana, <<>>, <<>>),
                          YItem(<<"N">>, UrlHttps, <<>>, <<>>)>>),
       YTab(0, <<"T">>, <<>>) >>

SampleEnvironments ==
    << [name |-> EnvProd, url |-> <<>>, color |-> ColorRed],
       [name |-> EnvDev, url |-> <<>>, color |-> <<>>] >>

\* Shard inference and shard expansion: the shard of every group, the item
\* templates and the FQDN vary.
ShardDocs ==
    {Doc(f,
         [i \in 1..Len(ss) |-> [shard |-> ss[i], tenants |-> <<TenantT>>]],
         its, SampleTabs, EnvProd, SampleEnvironments, <<>>) :
        f \in FQDNs,
        ss \in SeqsUpTo(ShardIds, MaxGroups),
        its \in SeqsUpTo(ShardItemPool, MaxItems)}

\* Customer expansion: the groups and their tenant lists vary.
CustomerDocs ==
    {Doc(FqdnPfn, cs, SampleItems, SampleTabs, EnvProd, SampleEnvironments, <<>>) :
        cs \in SeqsUpTo([shard : {ShardA, ShardB},
                         tenants : SeqsUpTo(TenantIds, MaxTenants)],
                        MaxCustGroups)}

\* Tab URL resolution: the items of the first tab, one item of the second and
\* the FQDN vary.
TabItemDocs ==
    {Doc(f, SampleCustomers, SampleItems,
         <<YTab(0, <<"T">>, its1), YTab(0, <<>>, its2)>>,
         EnvProd, SampleEnvironments, <<>>) :
        f \in {FqdnPlain, FqdnPfn, FqdnPfnOnly},
        its1 \in SeqsUpTo(TabItemPool, MaxTabItems),
        its2 \in SeqsUpTo(TabItemPool, 1)}

\* Tab indices: the number of tabs, their names and their index keys vary.
TabIndexDocs ==
    {Doc(FqdnPlain, SampleCustomers, SampleItems, tabs,
         EnvProd, SampleEnvironments, <<>>) :
        tabs \in SeqsUpTo(TabVariants, MaxTabs)}

\* Colour resolution: the environment, the environments list and the
\* envcolor key (the untagged field Config.EnvColor) vary.
EnvDocs ==
    {Doc(FqdnPlain, SampleCustomers, SampleItems, SampleTabs, e, es, ec) :
        e \in {EnvProd, EnvDev},
        es \in SeqsUpTo(EnvironmentLinks, MaxEnvs),
        ec \in {<<>>, ColorPreset}}

Docs == ShardDocs \cup CustomerDocs \cup TabItemDocs \cup TabIndexDocs \cup EnvDocs

\* The documents of Spec, the whole program.
SampleDocs ==
    {Doc(f, SampleCustomers, SampleItems, SampleTabs, e, SampleEnvironments, <<>>) :
        f \in {FqdnPlain, FqdnPfn, FqdnPfnTwice}, e \in {EnvProd, EnvDev}}

\* cfg/config.yaml: a parsable document, a file that cannot be read, or a
\* file that is not a yaml document of the Config.
FilesOf(docs) ==
    {[status |-> "ok", doc |-> d] : d \in docs}
        \cup {[status |-> "missing"], [status |-> "malformed"]}

(***************************************************************************)
(* main: the startup steps.  pc is main's position; steps logs the startup *)
(* operations main has completed, in order.                                *)
(***************************************************************************)
InitOf(docs) ==
    /\ pc = "start"
    /\ file \in FilesOf(docs)
    /\ cfg = ZeroConfig
    /\ steps = <<>>
    /\ expandedShards = <<>>
    /\ expandedCustomers = <<>>
    /\ requests = <<>>

\* A variant that drops loadConfig's error and goes on with the zero Config.
LoadConfigIgnoringError ==
    /\ pc = "start"
    /\ cfg' = IF file.status = "ok" THEN Unmarshal(file.doc) ELSE ZeroConfig
    /\ steps' = Append(steps, "load")
    /\ pc' = "color"
    /\ UNCHANGED <<file, expandedShards, expandedCustomers, requests>>

\* cfg, err := loadConfig(...); if err != nil { log.Fatal(...) }
LoadConfig ==
    /\ pc = "start"
    /\ IF file.status = "ok"
       THEN /\ cfg' = Unmarshal(file.doc)
            /\ steps' = Append(steps, "load")
            /\ pc' = "color"
       ELSE /\ pc' = "fatal"
            /\ UNCHANGED <<cfg, steps>>
    /\ UNCHANGED <<file, expandedShards, expandedCustomers, requests>>

ResolveColor ==
    /\ pc = "color"
    /\ cfg' = [cfg EXCEPT !.EnvColor = resolveColor(cfg)]
    /\ steps' = Append(steps, "color")
    /\ pc' = "templates"
    /\ UNCHANGED <<file, expandedShards, expandedCustomers, requests>>

\* template.ParseFS over the embedded templates: they parse, or log.Fatal.
ParseTemplates ==
    /\ pc = "templates"
    /\ \/ /\ pc' = "tabs"
          /\ steps' = Append(steps, "templates")
       \/ /\ pc' = "fatal"
          /\ UNCHANGED steps
    /\ UNCHANGED <<file, cfg, expandedShards, expandedCustomers, requests>>

FixTabs ==
    /\ pc = "tabs"
    /\ cfg' = [cfg EXCEPT !.Tabs = fixTabs(cfg)]
    /\ steps' = Append(steps, "tabs")
    /\ pc' = "shards"
    /\ UNCHANGED <<file, expandedShards, expandedCustomers, requests>>

ExpandShardsStep ==
    /\ pc = "shards"
    /\ expandedShards' = ExpandShards(cfg)
    /\ steps' = Append(steps, "shards")
    /\ pc' = "customers"
    /\ UNCHANGED <<file, cfg, expandedCustomers, requests>>

ExpandCustomersStep ==
    /\ pc = "customers"
    /\ expandedCustomers' = ExpandCustomers(cfg)
    /\ steps' = Append(steps, "customers")
    /\ pc' = "listen"
    /\ UNCHANGED <<file, cfg, expandedShards, requests>>

\* http.ListenAndServe: the listener accepts connections, or it returns an
\* error at once (the port is taken) and log.Fatal ends the process.
ListenAndServe ==
    /\ pc = "listen"
    /\ \/ pc' = "serving"
       \/ pc' = "fatal"
    /\ UNCHANGED <<file, cfg, steps, expandedShards, expandedCustomers, requests>>

(***************************************************************************)
(* The handler of "/".  A request is accepted (data is built: the Config   *)
(* pointer and the two slices), the template is executed into buf, and buf *)
(* is written; a template error answers 500.  Requests run concurrently:   *)
(* their steps interleave.                                                 *)
(***************************************************************************)
NoBuf == [rendered |-> FALSE]

Accept ==
    /\ pc = "serving"
    /\ Len(requests) < MaxRequests
    /\ requests' = Append(requests,
            [at |-> "execute",
             data |-> [ExpandedShards |-> expandedShards,
                       ExpandedCustomers |-> expandedCustomers],
             buf |-> NoBuf,
             code |-> 0,
             body |-> NoBuf])
    /\ UNCHANGED <<pc, file, cfg, steps, expandedShards, expandedCustomers>>

\* A variant in which the handler expands the shards again onto the shared slice.
ExecuteTemplateAppending(r) ==
    /\ pc = "serving"
    /\ requests[r].at = "execute"
    /\ expandedShards' = expandedShards \o ExpandShards(cfg)
    /\ requests' = [requests EXCEPT
            ![r].at = "write",
            ![r].buf = [rendered |-> TRUE,
                        Config |-> cfg,
                        ExpandedShards |-> expandedShards',
                        ExpandedCustomers |-> requests[r].data.ExpandedCustomers]]
    /\ UNCHANGED <<pc, file, cfg, steps, expandedCustomers>>

\* tmpl.ExecuteTemplate(&buf, "index.html", data): what the template reads
\* is the Config behind the pointer and the two slices of data.
ExecuteTemplate(r) ==
    /\ pc = "serving"
    /\ requests[r].at = "execute"
    /\ \/ requests' = [requests EXCEPT
            ![r].at = "write",
            ![r].buf = [rendered |-> TRUE,
                        Config |-> cfg,
                        ExpandedShards |-> requests[r].data.ExpandedShards,
                        ExpandedCustomers |-> requests[r].data.ExpandedCustomers]]
       \/ requests' = [requests EXCEPT ![r].at = "done", ![r].code = 500]
    /\ UNCHANGED <<pc, file, cfg, steps, expandedShards, expandedCustomers>>

\* w.Write(buf.Bytes())
WriteResponse(r) ==
    /\ pc = "serving"
    /\ requests[r].at = "write"
    /\ requests' = [requests EXCEPT
            ![r].at = "done", ![r].code = 200, ![r].body = requests[r].buf]
    /\ UNCHANGED <<pc, file, cfg, steps, expandedShards, expandedCustomers>>

Startup ==
    \/ LoadConfig
    \/ ResolveColor
    \/ ParseTemplates
    \/ FixTabs
    \/ ExpandShardsStep
    \/ ExpandCustomersStep
    \/ ListenAndServe

Handle ==
    \/ Accept
    \/ \E r \in DOMAIN requests : ExecuteTemplate(r)
    \/ \E r \in DOMAIN requests : WriteResponse(r)

\* The program: startup, then the handler, over the sample documents.
Init == InitOf(SampleDocs)

Next == Startup \/ Handle

Spec == Init /\ [][Next]_vars

\* The startup pipeline alone, over every document family.
InitStartup == InitOf(Docs)

NextStartup ==
    \/ LoadConfig
    \/ ResolveColor
    \/ ParseTemplates
    \/ FixTabs
    \/ ExpandShardsStep
    \/ ExpandCustomersStep
    \/ ListenAndServe

SpecStartup == InitStartup /\ [][NextStartup]_vars

(***************************************************************************)
(* Properties.                                                             *)
(***************************************************************************)
Done(step) == \E i \in DOMAIN steps : steps[i] = step

FirstIndex(customers, shard) ==
    CHOOSE i \in DOMAIN customers :
        /\ customers[i].Shard = shard
        /\ \A k \in 1..(i - 1) : customers[k].Shard # shard

\* C1: the inferred shard list holds exactly the distinct shards of the
\* customer groups, each once, in the order of their first occurrence in the
\* customer list; no customers give no shards.
C1_ShardListFirstOccurrence ==
    LET cs == cfg.Customers
        r == shardListFromCustomers(cfg)
    IN  /\ \A i, j \in DOMAIN r : i # j => r[i] # r[j]
        /\ Range(r) = {cs[k].Shard : k \in DOMAIN cs}
        /\ \A i, j \in DOMAIN r :
              i < j => FirstIndex(cs, r[i]) < FirstIndex(cs, r[j])
        /\ cs = <<>> => r = <<>>

\* C1 witness: the shards were expanded for the groups b, a, b: the repeated
\* b is dropped and b stays ahead of a.
C1_Witness ==
    /\ Done("shards")
    /\ [i \in DOMAIN cfg.Customers |-> cfg.Customers[i].Shard]
          = <<ShardB, ShardA, ShardB>>
    /\ shardListFromCustomers(cfg) = <<ShardB, ShardA>>
    /\ [k \in DOMAIN expandedShards |-> expandedShards[k].ShardName]
          = <<ShardB, ShardA>>

\* C2: after shard expansion there is one ShardGroup per inferred shard, in
\* inference order, each with one item per entry of shards.items in that
\* order, name and icon copied and URL "https://" shard "." base "/" path; so
\* all groups have the same item names and icons.
C2_ExpandShards ==
    Done("shards") =>
        LET shards == shardListFromCustomers(cfg)
            items == cfg.Shards.Items
        IN  /\ Len(expandedShards) = Len(shards)
            /\ \A k \in DOMAIN expandedShards :
                  /\ expandedShards[k].ShardName = shards[k]
                  /\ Len(expandedShards[k].Items) = Len(items)
                  /\ \A j \in DOMAIN items :
                        /\ expandedShards[k].Items[j].Name = items[j].Name
                        /\ expandedShards[k].Items[j].Icon = items[j].Icon
                        /\ expandedShards[k].Items[j].URL =
                              HttpsScheme \o shards[k] \o <<".">> \o base(cfg)
                                  \o <<"/">> \o items[j].Path
            /\ \A k, m \in DOMAIN expandedShards :
                  [j \in DOMAIN expandedShards[k].Items |->
                      <<expandedShards[k].Items[j].Name,
                        expandedShards[k].Items[j].Icon>>]
                  = [j \in DOMAIN expandedShards[m].Items |->
                      <<expandedShards[m].Items[j].Name,
                        expandedShards[m].Items[j].Icon>>]

\* C2 witness: two shard groups of two items each, built under a "pfn." FQDN.
C2_Witness ==
    /\ Done("shards")
    /\ cfg.FQDN = FqdnPfn
    /\ Len(expandedShards) = 2
    /\ Len(cfg.Shards.Items) = 2
    /\ cfg.Shards.Items[1] # cfg.Shards.Items[2]
    /\ expandedShards[2].ShardName = ShardUSEast
    /\ expandedShards[2].Items[1].URL =
          HttpsScheme \o ShardUSEast \o <<".">> \o FqdnPlain \o <<"/">>
              \o cfg.Shards.Items[1].Path

\* C3: after customer expansion there is one CustomerShardGroup per
\* CustomerGroup, in config order and unmerged; group i has the shard of
\* CustomerGroup i and one ExpandedCustomer per tenant in tenant order, each
\* with the single link (tenant, "https://" tenant "." base "/wanda",
\* "fish.svg").
C3_ExpandCustomers ==
    Done("customers") =>
        /\ Len(expandedCustomers) = Len(cfg.Customers)
        /\ \A i \in DOMAIN expandedCustomers :
              LET tenants == cfg.Customers[i].Tenants
                  group == expandedCustomers[i]
              IN  /\ group.ShardName = cfg.Customers[i].Shard
                  /\ Len(group.Customers) = Len(tenants)
                  /\ \A t \in DOMAIN tenants :
                        /\ group.Customers[t].Name = tenants[t]
                        /\ Len(group.Customers[t].Links) = 1
                        /\ group.Customers[t].Links[1].Name = tenants[t]
                        /\ group.Customers[t].Links[1].Icon = FishIcon
                        /\ group.Customers[t].Links[1].URL =
                              HttpsScheme \o tenants[t] \o <<".">> \o base(cfg)
                                  \o <<"/">> \o Wanda

\* C3 witness: two groups of the same shard stay two groups, the first with
\* two tenants in their order.
C3_Witness ==
    /\ Done("customers")
    /\ Len(cfg.Customers) = 2
    /\ cfg.Customers[1].Shard = cfg.Customers[2].Shard
    /\ cfg.Customers[1].Tenants = <<TenantAcme, TenantT>>
    /\ cfg.Customers[2].Tenants = <<TenantT>>
    /\ Len(expandedCustomers) = 2
    /\ expandedCustomers[1].Customers[1].Links[1].URL =
          HttpsScheme \o TenantAcme \o <<".">> \o FqdnPlain \o <<"/">> \o Wanda

\* The tabs as decoded from the file, before any fixup.
DecodedTabs == Unmarshal(file.doc).Tabs

\* C4: after the tab fixup every item URL that starts with "http://" or
\* "https://" is as it was in the file, and any other value v is
\* "https://" v "." fqdn with the FQDN as written; names, icons, and the
\* number and order of items are as in the file.
C4_TabURLResolution ==
    Done("tabs") =>
        /\ Len(cfg.Tabs) = Len(DecodedTabs)
        /\ \A i \in DOMAIN cfg.Tabs :
              /\ Len(cfg.Tabs[i].Items) = Len(DecodedTabs[i].Items)
              /\ \A j \in DOMAIN cfg.Tabs[i].Items :
                    LET was == DecodedTabs[i].Items[j]
                        now == cfg.Tabs[i].Items[j]
                    IN  /\ now.Name = was.Name
                        /\ now.Icon = was.Icon
                        /\ now.URL =
                              IF \/ HasPrefix(was.URL, HttpScheme)
                                 \/ HasPrefix(was.URL, HttpsScheme)
                              THEN was.URL
                              ELSE HttpsScheme \o was.URL \o <<".">>
                                       \o file.doc.fqdn

\* C4 witness: under a "pfn." FQDN, a tab with an "http://" item and a
\* relative item, and a second tab with an empty URL, were fixed up.
C4_Witness ==
    /\ Done("tabs")
    /\ file.doc.fqdn = FqdnPfn
    /\ Len(cfg.Tabs) = 2
    /\ Len(cfg.Tabs[1].Items) = 2
    /\ DecodedTabs[1].Items[1].URL = UrlHttp
    /\ cfg.Tabs[1].Items[1].URL = UrlHttp
    /\ DecodedTabs[1].Items[2].URL = UrlGrafana
    /\ cfg.Tabs[1].Items[2].URL = HttpsScheme \o UrlGrafana \o <<".">> \o FqdnPfn
    /\ Len(cfg.Tabs[2].Items) = 1
    /\ DecodedTabs[2].Items[1].URL = <<>>
    /\ cfg.Tabs[2].Items[1].URL = HttpsScheme \o <<".">> \o FqdnPfn

\* The positions of the environments whose name is the configured one.
Matches == {i \in DOMAIN cfg.Environments :
                cfg.Environments[i].Name = cfg.Environment}

LastMatch == CHOOSE i \in Matches : \A k \in Matches : k <= i

\* C5: after colour resolution the colour is never empty; it is the default
\* when no environment matches or the last match has an empty colour, and the
\* colour of the last match otherwise.
C5_ColorResolution ==
    Done("color") =>
        /\ cfg.EnvColor # <<>>
        /\ (Matches = {} \/ cfg.Environments[LastMatch].Color = <<>>)
              => cfg.EnvColor = DefaultColor
        /\ (Matches # {} /\ cfg.Environments[LastMatch].Color # <<>>)
              => cfg.EnvColor = cfg.Environments[LastMatch].Color

\* C5 with the document's envcolor key absent.
C5_ColorResolutionNoEnvColorKey ==
    (Done("color") /\ file.doc.envcolor = <<>>) =>
        /\ cfg.EnvColor # <<>>
        /\ (Matches = {} \/ cfg.Environments[LastMatch].Color = <<>>)
              => cfg.EnvColor = DefaultColor
        /\ (Matches # {} /\ cfg.Environments[LastMatch].Color # <<>>)
              => cfg.EnvColor = cfg.Environments[LastMatch].Color

\* C6: base is the FQDN without one leading "pfn." when it starts with
\* "pfn.", and the FQDN otherwise; that one value is the domain of every
\* shard URL and every tenant URL.
C6_BaseDomain ==
    /\ HasPrefix(cfg.FQDN, PfnPrefix) => PfnPrefix \o base(cfg) = cfg.FQDN
    /\ ~HasPrefix(cfg.FQDN, PfnPrefix) => base(cfg) = cfg.FQDN
    /\ \A k \in DOMAIN expandedShards :
          \A j \in DOMAIN expandedShards[k].Items :
              expandedShards[k].Items[j].URL =
                  SprintfURL(expandedShards[k].ShardName, base(cfg),
                             cfg.Shards.Items[j].Path)
    /\ \A i \in DOMAIN expandedCustomers :
          \A t \in DOMAIN expandedCustomers[i].Customers :
              expandedCustomers[i].Customers[t].Links[1].URL =
                  SprintfURL(expandedCustomers[i].Customers[t].Name, base(cfg),
                             Wanda)

\* C6 witness: the FQDN "pfn.pfn.ex.io" gave the base "pfn.ex.io" and both
\* expansions used it.
C6_Witness ==
    /\ Done("customers")
    /\ cfg.FQDN = FqdnPfnTwice
    /\ base(cfg) = FqdnPfn
    /\ Len(expandedShards) > 0
    /\ Len(expandedShards[1].Items) > 0
    /\ Len(expandedCustomers) > 0
    /\ Len(expandedCustomers[1].Customers) > 0

\* C7: every ShardGroup has the shard identifier as ShardName, and DataShard
\* is that identifier with each space turned into a hyphen, each upper-case
\* letter into its lower-case letter, and every other character kept.
C7_DataShardSlug ==
    Done("shards") =>
        LET shards == shardListFromCustomers(cfg)
        IN  \A k \in DOMAIN expandedShards :
                LET name == expandedShards[k].ShardName
                    slug == expandedShards[k].DataShard
                IN  /\ name = shards[k]
                    /\ Len(slug) = Len(name)
                    /\ \A i \in DOMAIN name :
                          IF name[i] = " "
                          THEN slug[i] = "-"
                          ELSE IF \E n \in DOMAIN UpperLetters :
                                      UpperLetters[n] = name[i]
                               THEN \E n \in DOMAIN UpperLetters :
                                      /\ UpperLetters[n] = name[i]
                                      /\ slug[i] = LowerLetters[n]
                               ELSE slug[i] = name[i]

\* C7 witness: the shard "US E _1" got the slug "us-e-_1".
C7_Witness ==
    /\ Done("shards")
    /\ \E k \in DOMAIN expandedShards :
          /\ expandedShards[k].ShardName = ShardUSEast
          /\ expandedShards[k].DataShard = <<"u", "s", "-", "e", "-", "_", "1">>

\* The startup operations the claim orders, as logged (template parsing,
\* which the claim does not mention, left out).
OrderedSteps == SelectSeq(steps, LAMBDA s : s # "templates")

\* C8: the process serves (accepts requests) only after loading the config
\* successfully, resolving the colour, fixing the tabs and computing both
\* expansions, in that order and once each, with their results in place; when
\* the config cannot be read or parsed it never gets past loading and no
\* request is ever accepted.
C8_ServeOnlyAfterStartup ==
    /\ (pc = "serving" \/ requests # <<>>) =>
          /\ file.status = "ok"
          /\ OrderedSteps = <<"load", "color", "tabs", "shards", "customers">>
          /\ cfg = [Unmarshal(file.doc) EXCEPT
                        !.EnvColor = resolveColor(Unmarshal(file.doc)),
                        !.Tabs = fixTabs(Unmarshal(file.doc))]
          /\ expandedShards = ExpandShards(cfg)
          /\ expandedCustomers = ExpandCustomers(cfg)
    /\ file.status # "ok" =>
          /\ pc \in {"start", "fatal"}
          /\ steps = <<>>
          /\ requests = <<>>

\* C8 witness: the server is serving and has answered a request with 200.
C8_Witness ==
    /\ pc = "serving"
    /\ \E r \in DOMAIN requests :
          requests[r].at = "done" /\ requests[r].code = 200

\* What a request renders from: the Config and the two expansions.
View ==
    [rendered |-> TRUE,
     Config |-> cfg,
     ExpandedShards |-> expandedShards,
     ExpandedCustomers |-> expandedCustomers]

\* C9: while serving, no step of any request changes the Config, the
\* expanded shard groups or the expanded customer groups, and every request
\* that rendered did so from exactly those values.
C9_HandlerLeavesStateUnchanged ==
    [][pc = "serving" =>
          /\ cfg' = cfg
          /\ expandedShards' = expandedShards
          /\ expandedCustomers' = expandedCustomers
          /\ \A r \in DOMAIN requests' :
                requests'[r].buf.rendered => requests'[r].buf = View]_vars

\* C9 witness: two requests interleave: the first has rendered and not yet
\* written when the second has already been answered.
C9_Witness ==
    /\ pc = "serving"
    /\ Len(requests) >= 2
    /\ requests[1].at = "write"
    /\ requests[1].buf = View
    /\ requests[2].at = "done"
    /\ requests[2].code = 200
    /\ requests[2].body = View
    /\ Len(expandedShards) > 0
    /\ Len(cfg.Tabs) > 0

\* C10: after the tab fixup the tab at position i of the file's list
\* (counted from 0) has Index i, whatever the names and whatever index the
\* file gave; the tabs are as many as in the file and in its order.
C10_TabIndices ==
    Done("tabs") =>
        /\ Len(cfg.Tabs) = Len(DecodedTabs)
        /\ \A i \in DOMAIN cfg.Tabs :
              /\ cfg.Tabs[i].Index = i - 1
              /\ cfg.Tabs[i].Name = DecodedTabs[i].Name

\* C10 witness: three tabs, two of them with the same name and one with an
\* empty name, got the indices 0, 1, 2.
C10_Witness ==
    /\ Done("tabs")
    /\ [i \in DOMAIN cfg.Tabs |-> cfg.Tabs[i].Name] = <<<<"T">>, <<>>, <<"T">>>>
    /\ [i \in DOMAIN DecodedTabs |-> DecodedTabs[i].Index] = <<5, 5, 0>>
    /\ [i \in DOMAIN cfg.Tabs |-> cfg.Tabs[i].Index] = <<0, 1, 2>>

====
